---- MODULE Spec2Model ----
(***************************************************************************)
(* Model of the user-registration form of src/src/App.tsx: the field       *)
(* validator (validateField), the form handlers (handleChange, handleBlur, *)
(* handleSubmit), the registration store (the `users` state mirrored to    *)
(* localStorage under 'registeredUsers'), the startup load effect and the  *)
(* success-banner timeout.                                                 *)
(*                                                                         *)
(* Strings are sequences of one-character strings, so that trimming,       *)
(* regular expressions, date parsing and JSON encoding are computed.       *)
(***************************************************************************)
EXTENDS Integers, Sequences, FiniteSets, TLC

VARIABLES phase, slot, users, formData, errors, touched, showSuccess, timers, now

vars == <<phase, slot, users, formData, errors, touched, showSuccess, timers, now>>

(***************************************************************************)
(* Bounds of the model.                                                    *)
(***************************************************************************)
MaxUsers == 2
MaxTime == 3000
MaxPad == 8
MaxTail == 4

(***************************************************************************)
(* Characters and character classes used by the regular expressions.       *)
(***************************************************************************)
DigitSeq == <<"0", "1", "2", "3", "4", "5", "6", "7", "8", "9">>

DigitChars == {DigitSeq[i] : i \in 1..10}

LowerChars == {"a", "b", "c", "d", "e", "f", "g", "h", "o"}

UpperChars == {"A", "J", "Z"}

SpecialChars == {"@", "$", "!", "%", "*", "?", "&"}

WhitespaceChars == {" "}

PhoneChars == DigitChars \cup WhitespaceChars \cup {"-", "(", ")"}

DigitVal(c) == CHOOSE n \in 0..9 : DigitSeq[n + 1] = c

Undefined == "undefined"

Fields == <<"fullName", "email", "password", "confirmPassword", "phone", "dateOfBirth">>

FieldNames == {Fields[i] : i \in 1..Len(Fields)}

EmptyForm == [f \in FieldNames |-> <<>>]

(***************************************************************************)
(* String helpers: String.prototype.trim, RegExp.test for the patterns of  *)
(* validateField, and replace(/\D/g, '').length.                           *)
(***************************************************************************)
RECURSIVE TrimStart(_)
TrimStart(s) ==
    IF s # <<>> /\ Head(s) \in WhitespaceChars THEN TrimStart(Tail(s)) ELSE s

RECURSIVE TrimEnd(_)
TrimEnd(s) ==
    IF s # <<>> /\ s[Len(s)] \in WhitespaceChars
    THEN TrimEnd(SubSeq(s, 1, Len(s) - 1))
    ELSE s

Trim(s) == TrimEnd(TrimStart(s))

AllIn(s, lo, hi, class) == \A i \in lo..hi : s[i] \in class

NoneIn(s, lo, hi, class) == \A i \in lo..hi : s[i] \notin class

Contains(s, class) == \E i \in 1..Len(s) : s[i] \in class

\* /^[a-zA-Z\s]+$/
NameRe(s) ==
    Len(s) >= 1 /\ AllIn(s, 1, Len(s), LowerChars \cup UpperChars \cup WhitespaceChars)

\* /^[^\s@]+@[^\s@]+\.[^\s@]+$/
EmailRe(s) ==
    \E i \in 1..Len(s) : \E j \in 1..Len(s) :
        /\ 1 < i /\ i + 1 < j /\ j < Len(s)
        /\ s[i] = "@" /\ s[j] = "."
        /\ NoneIn(s, 1, i - 1, WhitespaceChars \cup {"@"})
        /\ NoneIn(s, i + 1, j - 1, WhitespaceChars \cup {"@"})
        /\ NoneIn(s, j + 1, Len(s), WhitespaceChars \cup {"@"})

\* /^\+?[\d\s-()]+$/
PhoneRe(s) ==
    LET start == IF s # <<>> /\ s[1] = "+" THEN 2 ELSE 1
    IN  start <= Len(s) /\ AllIn(s, start, Len(s), PhoneChars)

DigitCount(s) == Cardinality({i \in 1..Len(s) : s[i] \in DigitChars})

(***************************************************************************)
(* Dates.  new Date(value) of a date-only ISO string YYYY-MM-DD is a valid *)
(* date; any other text of the model is an Invalid Date, whose             *)
(* getFullYear() is NaN.  A number is [nan, val]; a comparison with NaN is *)
(* false.  Times are milliseconds since the epoch, read in UTC.            *)
(***************************************************************************)
Num(n) == [nan |-> FALSE, val |-> n]

NaN == [nan |-> TRUE, val |-> 0]

Minus(a, b) == IF a.nan \/ b.nan THEN NaN ELSE Num(a.val - b.val)

Less(a, n) == ~a.nan /\ a.val < n

Greater(a, n) == ~a.nan /\ a.val > n

TwoDigits(s, i) == DigitVal(s[i]) * 10 + DigitVal(s[i + 1])

IsIsoDate(s) ==
    /\ Len(s) = 10
    /\ s[5] = "-" /\ s[8] = "-"
    /\ \A i \in {1, 2, 3, 4, 6, 7, 9, 10} : s[i] \in DigitChars
    /\ TwoDigits(s, 6) \in 1..12
    /\ TwoDigits(s, 9) \in 1..31

DobFullYear(s) ==
    IF IsIsoDate(s)
    THEN Num(TwoDigits(s, 1) * 100 + TwoDigits(s, 3))
    ELSE NaN

\* a year is 31556952 seconds on average
TodayFullYear(t) == Num(1970 + ((t \div 1000) \div 31556952))

(***************************************************************************)
(* validateField(name, value): the closure reads formData.password (fd)    *)
(* and the clock (t).                                                      *)
(***************************************************************************)
ValidateFullName(value) ==
    IF Trim(value) = <<>> THEN "Full name is required"
    ELSE IF Len(Trim(value)) < 2 THEN "Name must be at least 2 characters"
    ELSE IF ~NameRe(value) THEN "Name can only contain letters"
    ELSE Undefined

ValidateEmail(value) ==
    IF Trim(value) = <<>> THEN "Email is required"
    ELSE IF ~EmailRe(value) THEN "Invalid email format"
    ELSE Undefined

\* variant: the length rule rejects a password of exactly 8 characters
ValidatePasswordOver8(value) ==
    IF value = <<>> THEN "Password is required"
    ELSE IF Len(value) <= 8 THEN "Password must be at least 8 characters"
    ELSE IF ~Contains(value, LowerChars) THEN "Password must contain a lowercase letter"
    ELSE IF ~Contains(value, UpperChars) THEN "Password must contain an uppercase letter"
    ELSE IF ~Contains(value, DigitChars) THEN "Password must contain a number"
    ELSE IF ~Contains(value, SpecialChars) THEN "Password must contain a special character"
    ELSE Undefined

ValidatePassword(value) ==
    IF value = <<>> THEN "Password is required"
    ELSE IF Len(value) < 8 THEN "Password must be at least 8 characters"
    ELSE IF ~Contains(value, LowerChars) THEN "Password must contain a lowercase letter"
    ELSE IF ~Contains(value, UpperChars) THEN "Password must contain an uppercase letter"
    ELSE IF ~Contains(value, DigitChars) THEN "Password must contain a number"
    ELSE IF ~Contains(value, SpecialChars) THEN "Password must contain a special character"
    ELSE Undefined

ValidateConfirmPassword(value, fd) ==
    IF value = <<>> THEN "Please confirm your password"
    ELSE IF value # fd.password THEN "Passwords do not match"
    ELSE Undefined

ValidatePhone(value) ==
    IF Trim(value) = <<>> THEN "Phone number is required"
    ELSE IF ~PhoneRe(value) THEN "Invalid phone number format"
    ELSE IF DigitCount(value) < 10 THEN "Phone number must be at least 10 digits"
    ELSE Undefined

ValidateDateOfBirth(value, t) ==
    IF value = <<>> THEN "Date of birth is required"
    ELSE LET age == Minus(TodayFullYear(t), DobFullYear(value))
         IN  IF Less(age, 13) THEN "You must be at least 13 years old"
             ELSE IF Greater(age, 120) THEN "Please enter a valid date"
             ELSE Undefined

validateField(name, value, fd, t) ==
    CASE name = "fullName" -> ValidateFullName(value)
      [] name = "email" -> ValidateEmail(value)
      [] name = "password" -> ValidatePassword(value)
      [] name = "confirmPassword" -> ValidateConfirmPassword(value, fd)
      [] name = "phone" -> ValidatePhone(value)
      [] name = "dateOfBirth" -> ValidateDateOfBirth(value, t)
      [] OTHER -> Undefined

(***************************************************************************)
(* Date.now().toString() and Date.prototype.toISOString(): decimal digits  *)
(* of the clock; the ISO text is written as the epoch milliseconds between *)
(* the markers T and Z (one text per instant, as the ISO format is).       *)
(***************************************************************************)
RECURSIVE NumberToString(_)
NumberToString(n) ==
    IF n < 10 THEN <<DigitSeq[n + 1]>>
    ELSE NumberToString(n \div 10) \o <<DigitSeq[(n % 10) + 1]>>

ToISOString(t) == <<"T">> \o NumberToString(t) \o <<"Z">>

(***************************************************************************)
(* JSON.  A JSON text is a sequence of tokens: the structural characters,  *)
(* property names, and the characters of string values between quotes,     *)
(* with quote and backslash escaped.  JSONparse covers the texts of the    *)
(* model: arrays of flat objects with string members; it reports a         *)
(* SyntaxError (ok = FALSE) for any other text.                            *)
(***************************************************************************)
UserKeys == <<"id", "fullName", "email", "phone", "dateOfBirth", "registeredAt">>

Quote == "\""

Backslash == "\\"

RECURSIVE EscapeChars(_)
EscapeChars(s) ==
    IF s = <<>> THEN <<>>
    ELSE IF Head(s) \in {Quote, Backslash}
         THEN <<Backslash, Head(s)>> \o EscapeChars(Tail(s))
         ELSE <<Head(s)>> \o EscapeChars(Tail(s))

StringifyString(s) == <<Quote>> \o EscapeChars(s) \o <<Quote>>

RECURSIVE StringifyMembers(_, _, _)
StringifyMembers(obj, keys, i) ==
    IF i > Len(keys) THEN <<>>
    ELSE (IF i > 1 THEN <<",">> ELSE <<>>)
         \o <<keys[i], ":">> \o StringifyString(obj[keys[i]])
         \o StringifyMembers(obj, keys, i + 1)

\* variant: the last property (registeredAt) is not written
StringifyObjectNoTimestamp(obj) ==
    <<"{">> \o StringifyMembers(obj, SubSeq(UserKeys, 1, Len(UserKeys) - 1), 1) \o <<"}">>

StringifyObject(obj) == <<"{">> \o StringifyMembers(obj, UserKeys, 1) \o <<"}">>

RECURSIVE StringifyElements(_, _)
StringifyElements(list, i) ==
    IF i > Len(list) THEN <<>>
    ELSE (IF i > 1 THEN <<",">> ELSE <<>>)
         \o StringifyObject(list[i]) \o StringifyElements(list, i + 1)

JSONstringify(list) == <<"[">> \o StringifyElements(list, 1) \o <<"]">>

Fail == [ok |-> FALSE, val |-> <<>>, rest |-> <<>>]

Ok(v, r) == [ok |-> TRUE, val |-> v, rest |-> r]

\* the characters of a string value up to its closing quote
RECURSIVE ParseChars(_, _)
ParseChars(ts, acc) ==
    IF ts = <<>> THEN Fail
    ELSE IF Head(ts) = Quote THEN Ok(acc, Tail(ts))
    ELSE IF Head(ts) = Backslash
         THEN IF Len(ts) >= 2 /\ ts[2] \in {Quote, Backslash}
              THEN ParseChars(Tail(Tail(ts)), Append(acc, ts[2]))
              ELSE Fail
    ELSE ParseChars(Tail(ts), Append(acc, Head(ts)))

ParseString(ts) ==
    IF ts # <<>> /\ Head(ts) = Quote THEN ParseChars(Tail(ts), <<>>) ELSE Fail

Structural == {"[", "]", "{", "}", ",", ":", Quote, Backslash}

\* the members of an object after its opening brace; first is TRUE before the
\* first member
RECURSIVE ParseMembers(_, _, _)
ParseMembers(ts, acc, first) ==
    IF ts = <<>> THEN Fail
    ELSE IF Head(ts) = "}" /\ first THEN Ok(acc, Tail(ts))
    ELSE IF Len(ts) < 2 \/ Head(ts) \in Structural \/ ts[2] # ":" THEN Fail
    ELSE LET v == ParseString(Tail(Tail(ts)))
         IN  IF ~v.ok \/ v.rest = <<>> THEN Fail
             ELSE LET obj == (Head(ts) :> v.val) @@ acc
                  IN  IF Head(v.rest) = "}" THEN Ok(obj, Tail(v.rest))
                      ELSE IF Head(v.rest) = ","
                           THEN ParseMembers(Tail(v.rest), obj, FALSE)
                           ELSE Fail

ParseObject(ts) ==
    IF ts # <<>> /\ Head(ts) = "{" THEN ParseMembers(Tail(ts), <<>>, TRUE) ELSE Fail

RECURSIVE ParseElements(_, _, _)
ParseElements(ts, acc, first) ==
    IF ts = <<>> THEN Fail
    ELSE IF Head(ts) = "]" /\ first THEN Ok(acc, Tail(ts))
    ELSE LET o == ParseObject(ts)
         IN  IF ~o.ok \/ o.rest = <<>> THEN Fail
             ELSE IF Head(o.rest) = "]" THEN Ok(Append(acc, o.val), Tail(o.rest))
             ELSE IF Head(o.rest) = ","
                  THEN ParseElements(Tail(o.rest), Append(acc, o.val), FALSE)
                  ELSE Fail

JSONparse(ts) ==
    IF ts # <<>> /\ Head(ts) = "["
    THEN LET r == ParseElements(Tail(ts), <<>>, TRUE)
         IN  IF r.ok /\ r.rest = <<>> THEN r ELSE Fail
    ELSE Fail

(***************************************************************************)
(* localStorage slot 'registeredUsers': absent (getItem returns null) or a *)
(* text.                                                                   *)
(***************************************************************************)
Absent == [present |-> FALSE, text |-> <<>>]

Text(ts) == [present |-> TRUE, text |-> ts]

(***************************************************************************)
(* Values the user types, and slots a session can start from.              *)
(***************************************************************************)
ValidValues ==
    [fullName |-> {<<"J", "o">>},
     email |-> {<<"a", "@", "b", ".", "c">>},
     password |-> {<<"A", "b", "c", "d", "e", "f", "1", "!">>},
     confirmPassword |-> {<<"A", "b", "c", "d", "e", "f", "1", "!">>},
     phone |-> {<<"1", "2", "3", "4", "5", "6", "7", "8", "9", "0">>},
     dateOfBirth |-> {<<"1", "9", "5", "0", "-", "0", "1", "-", "0", "1">>}]

OtherValues ==
    [fullName |-> {<<>>},
     email |-> {<<>>},
     password |-> {<<>>, <<"a", "b", "c", "d", "e", "f", "g", "h">>},
     confirmPassword |-> {<<>>},
     phone |-> {<<>>},
     dateOfBirth |-> {<<>>, <<"1", "9", "6", "5", "-", "0", "1", "-", "0", "1">>,
                      <<"a", "b", "c">>}]

TypedValues == [f \in FieldNames |-> ValidValues[f] \cup OtherValues[f]]

StoredUser ==
    [id |-> NumberToString(1000),
     fullName |-> <<"J", "o">>,
     email |-> <<"a", "@", "b", ".", "c">>,
     phone |-> <<"1", "2", "3", "4", "5", "6", "7", "8", "9", "0">>,
     dateOfBirth |-> <<"1", "9", "5", "0", "-", "0", "1", "-", "0", "1">>,
     registeredAt |-> ToISOString(1000)]

InitialSlots ==
    {Absent, Text(<<>>), Text(<<"[", "{">>), Text(JSONstringify(<<>>)),
     Text(JSONstringify(<<StoredUser>>))}

Ticks == {1000, 2000}

(***************************************************************************)
(* State after construction: the useState initial values, before the       *)
(* mount effect has run.                                                   *)
(***************************************************************************)
InitApp ==
    /\ phase = "mounting"
    /\ users = <<>>
    /\ formData = EmptyForm
    /\ errors = [f \in FieldNames |-> Undefined]
    /\ touched = {}
    /\ showSuccess = FALSE
    /\ timers = {}
    /\ now = 0

Init == InitApp /\ slot \in InitialSlots

(***************************************************************************)
(* useEffect(..., []): the startup load.  getItem of an absent key is null *)
(* and the empty text is falsy: neither is parsed.  A SyntaxError thrown   *)
(* by JSON.parse inside the effect is not caught by any error boundary, so *)
(* React unmounts the application.                                         *)
(***************************************************************************)
Truthy(storedUsers) == storedUsers.present /\ storedUsers.text # <<>>

LoadUsers(storedUsers) ==
    IF Truthy(storedUsers)
    THEN JSONparse(storedUsers.text)
    ELSE Ok(<<>>, <<>>)

Load ==
    /\ phase = "mounting"
    /\ LET r == LoadUsers(slot)
       IN  IF r.ok
           THEN phase' = "running" /\ users' = r.val
           ELSE phase' = "crashed" /\ users' = users
    /\ UNCHANGED <<slot, formData, errors, touched, showSuccess, timers, now>>

(***************************************************************************)
(* handleChange and handleBlur.                                            *)
(***************************************************************************)
HandleChange(name, value) ==
    /\ phase = "running"
    /\ formData' = [formData EXCEPT ![name] = value]
    /\ errors' = IF name \in touched
                 THEN [errors EXCEPT ![name] = validateField(name, value, formData, now)]
                 ELSE errors
    /\ UNCHANGED <<phase, slot, users, touched, showSuccess, timers, now>>

HandleBlur(name, value) ==
    /\ phase = "running"
    /\ touched' = touched \cup {name}
    /\ errors' = [errors EXCEPT ![name] = validateField(name, value, formData, now)]
    /\ UNCHANGED <<phase, slot, users, formData, showSuccess, timers, now>>

(***************************************************************************)
(* handleSubmit.                                                           *)
(***************************************************************************)
SuccessDuration == 3000

NewErrors(fd, t) == [f \in FieldNames |-> validateField(f, fd[f], fd, t)]

\* variant: only the touched fields are validated on submit
HasErrorsTouchedOnly(fd, t) == \E f \in touched : NewErrors(fd, t)[f] # Undefined

HasErrors(fd, t) == \E f \in FieldNames : NewErrors(fd, t)[f] # Undefined

NewUser(fd, t) ==
    [id |-> NumberToString(t),
     fullName |-> fd.fullName,
     email |-> fd.email,
     phone |-> fd.phone,
     dateOfBirth |-> fd.dateOfBirth,
     registeredAt |-> ToISOString(t)]

AppendUser(list, user) == Append(list, user)

HandleSubmit ==
    /\ phase = "running"
    /\ IF HasErrors(formData, now)
       THEN /\ errors' = NewErrors(formData, now)
            /\ touched' = FieldNames
            /\ UNCHANGED <<users, slot, formData, showSuccess, timers>>
       ELSE /\ Len(users) < MaxUsers
            /\ LET updatedUsers == AppendUser(users, NewUser(formData, now))
               IN  /\ users' = updatedUsers
                   /\ slot' = Text(JSONstringify(updatedUsers))
            /\ formData' = EmptyForm
            /\ errors' = [f \in FieldNames |-> Undefined]
            /\ touched' = {}
            /\ showSuccess' = TRUE
            /\ timers' = timers \cup {now + SuccessDuration}
    /\ UNCHANGED <<phase, now>>

(***************************************************************************)
(* The callback of setTimeout(() => setShowSuccess(false), 3000).  Pending *)
(* timeouts are kept by due time; two timeouts due at the same instant     *)
(* have the same effect as one.                                            *)
(***************************************************************************)
TimerFire(due) ==
    /\ phase = "running"
    /\ due \in timers
    /\ due <= now
    /\ showSuccess' = FALSE
    /\ timers' = timers \ {due}
    /\ UNCHANGED <<phase, slot, users, formData, errors, touched, now>>

(***************************************************************************)
(* handleDeleteUser.                                                       *)
(***************************************************************************)
\* variant: only the first record with the identifier is removed
RECURSIVE RemoveFirstById(_, _)
RemoveFirstById(list, id) ==
    IF list = <<>> THEN <<>>
    ELSE IF Head(list).id = id THEN Tail(list)
    ELSE <<Head(list)>> \o RemoveFirstById(Tail(list), id)

RemoveById(list, id) == SelectSeq(list, LAMBDA user : user.id # id)

\* variant: the removal is not persisted
HandleDeleteUserMemoryOnly(id) ==
    /\ phase = "running"
    /\ users' = RemoveById(users, id)
    /\ UNCHANGED <<phase, slot, formData, errors, touched, showSuccess, timers, now>>

HandleDeleteUser(id) ==
    /\ phase = "running"
    /\ LET updatedUsers == RemoveById(users, id)
       IN  /\ users' = updatedUsers
           /\ slot' = Text(JSONstringify(updatedUsers))
    /\ UNCHANGED <<phase, formData, errors, touched, showSuccess, timers, now>>

(***************************************************************************)
(* Environment: the clock advances; the page is reloaded, which discards   *)
(* the component state and the pending timeouts and keeps localStorage.    *)
(***************************************************************************)
Advance(d) ==
    /\ now + d <= MaxTime
    /\ now' = now + d
    /\ UNCHANGED <<phase, slot, users, formData, errors, touched, showSuccess, timers>>

Reload ==
    /\ phase # "mounting"
    /\ phase' = "mounting"
    /\ users' = <<>>
    /\ formData' = EmptyForm
    /\ errors' = [f \in FieldNames |-> Undefined]
    /\ touched' = {}
    /\ showSuccess' = FALSE
    /\ timers' = {}
    /\ UNCHANGED <<slot, now>>

DeleteIds == {users[i].id : i \in 1..Len(users)} \cup {NumberToString(0)}

(***************************************************************************)
(* Spec: the whole application (store, clock, timeouts, reload) with a     *)
(* user who types the valid values and leaves the email field.             *)
(***************************************************************************)
BlurFields == {"email"}

Next ==
    \/ Load
    \/ \E f \in FieldNames : \E v \in ValidValues[f] : HandleChange(f, v)
    \/ \E f \in BlurFields : HandleBlur(f, formData[f])
    \/ HandleSubmit
    \/ \E due \in timers : TimerFire(due)
    \/ \E id \in DeleteIds : HandleDeleteUser(id)
    \/ \E d \in Ticks : Advance(d)
    \/ Reload

Spec == Init /\ [][Next]_vars

(***************************************************************************)
(* SpecForm: the form in one session at one instant, with a user who types *)
(* valid and invalid values, clears fields and leaves any field.           *)
(***************************************************************************)
InitForm == InitApp /\ slot = Absent

NextForm ==
    \/ Load
    \/ \E f \in FieldNames : \E v \in TypedValues[f] : HandleChange(f, v)
    \/ \E f \in FieldNames : HandleBlur(f, formData[f])
    \/ HandleSubmit
    \/ \E id \in DeleteIds : HandleDeleteUser(id)

SpecForm == InitForm /\ [][NextForm]_vars

(***************************************************************************)
(* SpecPassword: validateField('password', v) applied, by leaving the      *)
(* password field, to every v made of a run of '#' followed by a short     *)
(* text over one character of each class.                                  *)
(***************************************************************************)
PasswordAlphabet == {"a", "A", "1", "!", "#"}

Pad(k) == [i \in 1..k |-> "#"]

PasswordInputs ==
    {Pad(k) \o w : k \in 0..MaxPad,
                   w \in UNION {[1..n -> PasswordAlphabet] : n \in 0..MaxTail}}

InitPassword ==
    /\ phase = "running"
    /\ slot = Absent
    /\ users = <<>>
    /\ \E v \in PasswordInputs : formData = [EmptyForm EXCEPT !.password = v]
    /\ errors = [f \in FieldNames |-> Undefined]
    /\ touched = {}
    /\ showSuccess = FALSE
    /\ timers = {}
    /\ now = 0

NextPassword == HandleBlur("password", formData.password)

SpecPassword == InitPassword /\ [][NextPassword]_vars

(***************************************************************************)
(* Properties.                                                             *)
(***************************************************************************)
AllFieldsPass ==
    \A i \in 1..Len(Fields) :
        validateField(Fields[i], formData[Fields[i]], formData, now) = Undefined

\* C1: a record is appended only by a submit in which every one of the six
\* fields passes its validator on the current form values, whatever the
\* touched flags; a submit with a failing field leaves the in-memory list and
\* the persisted slot unchanged.
C1_AppendOnlyWhenAllValid ==
    [][/\ (phase = "running" /\ Len(users') > Len(users)) => AllFieldsPass
       /\ (HandleSubmit /\ ~AllFieldsPass) => UNCHANGED <<users, slot>>]_vars

\* a record has been appended by a submit with untouched fields, and a later
\* submit has been rejected
C1_Witness ==
    /\ Len(users) >= 1
    /\ touched = FieldNames
    /\ ~AllFieldsPass
    /\ \E f \in FieldNames : errors[f] # Undefined

\* C2: no two records in the store have the same identifier.
C2_UniqueIds ==
    \A i \in 1..Len(users) : \A j \in 1..Len(users) :
        i # j => users[i].id # users[j].id

\* C3: when the persisted slot is absent or cannot be parsed, the startup load
\* does not fail: the list is empty and the application runs.
C3_LoadFallsBackToEmpty ==
    (phase # "mounting" /\ (~slot.present \/ ~JSONparse(slot.text).ok))
        => (phase = "running" /\ users = <<>>)

Range(list) == {list[i] : i \in 1..Len(list)}

\* C4: after every append and every removal the persisted slot decodes to
\* exactly the in-memory list; an append puts the new record at the end and
\* keeps the earlier records in order; a removal keeps the remaining records
\* in order; memory and slot are never updated one without the other.
C4_SlotMirrorsMemory ==
    [][(phase = "running" /\ phase' = "running" /\ (users' # users \/ slot' # slot)) =>
          /\ slot'.present
          /\ JSONparse(slot'.text).ok
          /\ JSONparse(slot'.text).val = users'
          /\ Len(users') > Len(users) =>
                (Len(users') = Len(users) + 1 /\ SubSeq(users', 1, Len(users)) = users)
          /\ Len(users') <= Len(users) =>
                (LET kept == Range(users')
                 IN  users' = SelectSeq(users, LAMBDA u : u \in kept))]_vars

\* two records are in memory, at least one appended in this session, and the
\* slot holds their encoding
C4_Witness ==
    /\ phase = "running"
    /\ Len(users) = 2
    /\ slot = Text(JSONstringify(users))
    /\ Cardinality(timers) = 2 \/ (timers # {} /\ users[1] = StoredUser)

\* C5: no two records in the store have the same email.
C5_UniqueEmails ==
    \A i \in 1..Len(users) : \A j \in 1..Len(users) :
        i # j => users[i].email # users[j].email

\* C6: a non-empty dateOfBirth that does not parse as a date is a validation
\* error, so no record with such a dateOfBirth is appended.
C6_UnparsableDateRejected ==
    /\ (formData.dateOfBirth # <<>> /\ DobFullYear(formData.dateOfBirth).nan)
          => validateField("dateOfBirth", formData.dateOfBirth, formData, now) # Undefined
    /\ \A i \in 1..Len(users) : ~DobFullYear(users[i].dateOfBirth).nan

\* C7: after append(r), the startup load run on the persisted slot yields a
\* list that contains r with every field as appended.
C7_AppendRoundTrip ==
    [][(phase = "running" /\ Len(users') > Len(users)) =>
          LET reloaded == LoadUsers(slot')
          IN  /\ reloaded.ok
              /\ \E i \in 1..Len(reloaded.val) :
                    /\ reloaded.val[i] = users'[Len(users')]
                    /\ reloaded.val[i].id = NumberToString(now)
                    /\ reloaded.val[i].fullName = formData.fullName
                    /\ reloaded.val[i].email = formData.email
                    /\ reloaded.val[i].phone = formData.phone
                    /\ reloaded.val[i].dateOfBirth = formData.dateOfBirth
                    /\ reloaded.val[i].registeredAt = ToISOString(now)]_vars

\* a record has just been appended after another one, and the list rebuilt
\* from the slot contains it
C7_Witness ==
    /\ phase = "running"
    /\ showSuccess
    /\ formData = EmptyForm
    /\ Len(users) = 2
    /\ LoadUsers(slot).ok
    /\ users[2] \in Range(LoadUsers(slot).val)

\* C8: removeById(id) applied a second time leaves the in-memory list and the
\* persisted slot as the first application left them.
C8_RemoveIdempotent ==
    [][\A id \in DeleteIds : HandleDeleteUser(id) =>
          /\ RemoveById(users', id) = users'
          /\ Text(JSONstringify(RemoveById(users', id))) = slot']_vars

\* both records appended in this session have been removed
C8_Witness ==
    /\ phase = "running"
    /\ Cardinality(timers) + Len(users) >= 2
    /\ users = <<>>
    /\ slot = Text(JSONstringify(<<>>))

PasswordRules(v) ==
    <<[fails |-> v = <<>>, msg |-> "Password is required"],
      [fails |-> Len(v) < 8, msg |-> "Password must be at least 8 characters"],
      [fails |-> \A i \in 1..Len(v) : v[i] \notin LowerChars,
       msg |-> "Password must contain a lowercase letter"],
      [fails |-> \A i \in 1..Len(v) : v[i] \notin UpperChars,
       msg |-> "Password must contain an uppercase letter"],
      [fails |-> \A i \in 1..Len(v) : v[i] \notin DigitChars,
       msg |-> "Password must contain a number"],
      [fails |-> \A i \in 1..Len(v) : v[i] \notin SpecialChars,
       msg |-> "Password must contain a special character"]>>

\* C9: validateField('password', v) returns no error iff v has length >= 8 and
\* a lowercase letter, an uppercase letter, a digit and one of @$!%*?&;
\* otherwise the message is that of the first failing rule.
C9_PasswordRules ==
    "password" \in touched =>
        LET v == formData.password
            rules == PasswordRules(v)
        IN  /\ errors.password = Undefined <=>
                 /\ Len(v) >= 8
                 /\ \E i \in 1..Len(v) : v[i] \in LowerChars
                 /\ \E i \in 1..Len(v) : v[i] \in UpperChars
                 /\ \E i \in 1..Len(v) : v[i] \in DigitChars
                 /\ \E i \in 1..Len(v) : v[i] \in SpecialChars
            /\ \A k \in 1..Len(rules) :
                 (rules[k].fails /\ \A m \in 1..(k - 1) : ~rules[m].fails)
                     => errors.password = rules[k].msg

\* a password of eight characters with all four classes has been accepted
C9_Witness ==
    /\ "password" \in touched
    /\ Len(formData.password) = 8
    /\ errors.password = Undefined

\* C10: the success indication is not hidden before the fixed duration has
\* elapsed since the latest successful submit.
C10_SuccessShownForDuration ==
    \A due \in timers : due > now => showSuccess

\* C11: for every touched field the stored error equals validateField on the
\* current form values; in particular the stored confirmPassword error is
\* 'Passwords do not match' exactly when the current confirmPassword is
\* non-empty and differs from the current password.
C11_TouchedErrorsCurrent ==
    /\ \A f \in touched : errors[f] = validateField(f, formData[f], formData, now)
    /\ "confirmPassword" \in touched =>
          (errors.confirmPassword = "Passwords do not match"
              <=> (formData.confirmPassword # <<>>
                   /\ formData.confirmPassword # formData.password))

====
